---- MODULE Spec2Model ----
(***************************************************************************)
(* ArtisanMarket: the cart -> order -> stock lifecycle.                    *)
(*                                                                         *)
(* Three stores are modelled.  PostgreSQL (products.stock, orders,         *)
(* order_items, the orders id sequence) under its default READ COMMITTED   *)
(* isolation: a transaction's writes are buffered in the worker that runs  *)
(* it and become visible at commit, an UPDATE of a row takes the row's     *)
(* lock until the transaction ends, and nextval() is never rolled back.    *)
(* Redis (one hash per user's cart, with its time to live), every command *)
(* atomic.  Neo4j (the PURCHASED relationships): a write to it is final,   *)
(* no PostgreSQL rollback undoes it.                                       *)
(*                                                                         *)
(* Money is counted in whole units, so price * quantity is exact.          *)
(***************************************************************************)
EXTENDS Integers, Sequences, FiniteSets, TLC

\* ---------------------------------------------------------------- bounds
NumWorkers == 2
MaxCalls == 3
MaxOrders == 2
MaxQty == 2
MaxElapsed == 2
MaxChecks == 102

\* ------------------------------------------------------------- the data
Workers == 1..NumWorkers
Users == {"U1", "U2"}
Products == {"P1", "P2"}
OrderIds == 1..MaxOrders
Quantities == 1..MaxQty

\* products.price and the stock the catalog was loaded with
Price == [x \in Products |-> IF x = "P1" THEN 10 ELSE 15]
InitStock == [x \in Products |-> IF x = "P1" THEN 1 ELSE 2]

\* the date datetime.now().strftime("%Y-%m-%d") gives
Today == "D1"

\* the product ids a caller may pass: those of the catalog, and one it does not hold
ProductIds == Products \cup {"P9"}

\* config.py, in seconds
CACHE_TTL == 3600
CART_TTL == 86400

\* config.py: the calls allowed per window, and the window in seconds
RATE_LIMIT_REQUESTS == 100
RATE_LIMIT_WINDOW == 60

VARIABLES
    stock,        \* products.stock, committed
    orders,       \* the orders table, committed: id -> row
    order_items,  \* the order_items table, committed, in insertion order
    order_seq,    \* the next value of the orders id sequence
    cart,         \* Redis: user -> the entries of cart:<user>, in insertion order
    purchased,    \* Neo4j: <<user, product, date>> -> quantity of the PURCHASED edge
    pc,           \* where each worker stands in the call it is running
    call,         \* each worker's running call: its arguments and locals
    ncalls,       \* calls begun so far
    ret,          \* the call that returned in the last step, with its result
    lastCancel,   \* <<order, user>> of a cancel_order that returned True, until the next call begins
    okCancels,    \* per order: cancel_order calls that returned True since its status was last set otherwise
    ttl,          \* Redis: user -> the seconds cart:<user> has left, 0 while the key does not exist
    elapsed,      \* the spans of time that have passed so far
    rate,         \* Redis: the counter rate_limit:<user>:<endpoint> of one user and endpoint
    aged          \* the orders whose order_date is more than 30 days before NOW()

vars == <<stock, orders, order_items, order_seq, cart, purchased, pc, call, ncalls,
          ret, lastCancel, okCancels, ttl, elapsed, rate, aged>>

\* ------------------------------------------------------------- helpers

\* an item of cart_total["items"] / of create_order's items argument
Item(x, q, price, total) ==
    [product_id |-> x, quantity |-> q, price |-> price, total |-> total]

RECURSIVE SumTotal(_)
SumTotal(its) ==
    IF its = <<>> THEN 0 ELSE its[1].total + SumTotal(Tail(its))

RECURSIVE SumQty(_, _)
\* the units of product x in a sequence of items or of order lines
SumQty(its, x) ==
    IF its = <<>> THEN 0
    ELSE (IF its[1].product_id = x THEN its[1].quantity ELSE 0) + SumQty(Tail(its), x)

Prefix(s, n) == SubSeq(s, 1, n)

\* a worker's call record while it runs no call
NoCall ==
    [op |-> "none", user |-> "-", order |-> 0, status |-> "-", items |-> <<>>,
     total |-> 0, idx |-> 0, gidx |-> 0, oid |-> 0, result |-> "-",
     stock0 |-> InitStock, rivalOk |-> FALSE, short |-> FALSE, repeat |-> FALSE,
     graphFailed |-> FALSE]

\* a call may begin: the call budget is not used up, and p is the first free
\* worker (the workers are interchangeable, any free one would do the same)
CanBegin(p) ==
    /\ ncalls < MaxCalls
    /\ pc[p] = "idle"
    /\ \A q \in Workers : q < p => pc[q] # "idle"

\* the bookkeeping of a call that begins
Begun == /\ ncalls' = ncalls + 1
         /\ lastCancel' = <<>>

\* whether a checkout's snapshot is one line that asks for every unit left
LastUnits(c) ==
    /\ Len(c.items) = 1
    /\ c.items[1].quantity = c.stock0[c.items[1].product_id]

\* the value of a call that returns no data
NoValue == [kind |-> "none"]

\* what is kept of a call that returned: no call has returned, at first
NoReturn ==
    [op |-> "none", user |-> "-", order |-> 0, oid |-> 0, idx |-> 0, lines |-> 0,
     result |-> "-",
     short |-> FALSE, rivalOk |-> FALSE, lastUnits |-> FALSE, repeat |-> FALSE,
     graphFailed |-> FALSE, product |-> "-", quantity |-> 0, value |-> NoValue]

\* the calls that take one product and one quantity
CartCalls == {"add_to_cart", "remove_from_cart", "update_cart_item", "redis_add_to_cart",
              "add_purchase"}

Returned(c, res) ==
    [op |-> c.op, user |-> c.user, order |-> c.order, oid |-> c.oid, idx |-> c.idx,
     lines |-> Len(c.items), result |-> res, short |-> c.short, rivalOk |-> c.rivalOk,
     lastUnits |-> (c.op = "convert_cart_to_order" /\ LastUnits(c)),
     repeat |-> c.repeat, graphFailed |-> c.graphFailed,
     product |-> IF c.op \in CartCalls THEN c.items[1].product_id ELSE "-",
     quantity |-> IF c.op \in CartCalls THEN c.items[1].quantity ELSE 0,
     value |-> NoValue]

\* the call returns the data v
ReturnValue(p, c, res, v) ==
    /\ pc' = [pc EXCEPT ![p] = "idle"]
    /\ call' = [call EXCEPT ![p] = NoCall]
    /\ ret' = [Returned(c, res) EXCEPT !.value = v]

\* a step inside a call
Running(p, to, c) ==
    /\ pc' = [pc EXCEPT ![p] = to]
    /\ call' = [call EXCEPT ![p] = c]
    /\ ret' = NoReturn

\* the call returns res
Return(p, c, res) ==
    /\ pc' = [pc EXCEPT ![p] = "idle"]
    /\ call' = [call EXCEPT ![p] = NoCall]
    /\ ret' = Returned(c, res)

\* the rate-limit key does not exist: no count, no expiry, no call allowed yet
NoCounter == [count |-> 0, ttl |-> 0, allowed |-> 0]

\* ---------------------------------------------------------------- Init
Init ==
    /\ stock = InitStock
    /\ orders = <<>>
    /\ order_items = <<>>
    /\ order_seq = 1
    /\ cart = [u \in Users |-> <<>>]
    /\ purchased = <<>>
    /\ pc = [p \in Workers |-> "idle"]
    /\ call = [p \in Workers |-> NoCall]
    /\ ncalls = 0
    /\ ret = NoReturn
    /\ lastCancel = <<>>
    /\ okCancels = [o \in OrderIds |-> 0]
    /\ ttl = [u \in Users |-> 0]
    /\ elapsed = 0
    /\ rate = NoCounter
    /\ aged = {}

\* ------------------------------------------------- PostgreSQL transactions

IsCreate(p) == call[p].op \in {"convert_cart_to_order", "create_order"}

InTx(p) == pc[p] \in {"co_tx", "cr_tx", "cr_graph", "ca_select", "ca_tx"}

\* the items whose INSERT / UPDATE statements the open transaction has executed
Written(p) == IF pc[p] \in {"co_tx", "cr_tx", "cr_graph", "ca_tx"}
              THEN Prefix(call[p].items, call[p].idx) ELSE <<>>

\* UPDATE products ... WHERE id = x holds the row's lock until commit or rollback
Locked(p) == {Written(p)[i].product_id : i \in 1..Len(Written(p))}

RowFree(p, x) == \A q \in Workers \ {p} : x \notin Locked(q)

\* UPDATE products SET stock = stock - %s, once per written item
StockAfterOrder(p) == [x \in Products |-> stock[x] - SumQty(Written(p), x)]

\* a restore loop that runs for the first selected line only
StockAfterCancelFirstLine(p) ==
    [x \in Products |-> stock[x] + SumQty(Prefix(Written(p), 1), x)]

\* UPDATE products SET stock = stock + %s, once per selected order line
StockAfterCancel(p) == [x \in Products |-> stock[x] + SumQty(Written(p), x)]

\* INSERT INTO orders (user_id, total_amount, status) VALUES (.., .., 'pending')
OrderRow(p) ==
    [user_id |-> call[p].user, total_amount |-> call[p].total, status |-> "pending"]

\* INSERT INTO order_items (order_id, product_id, quantity, unit_price, total_price)
LineRow(o, it) ==
    [order_id |-> o, product_id |-> it.product_id, quantity |-> it.quantity,
     unit_price |-> it.price, total_price |-> it.total]

LinesWritten(p) == [i \in 1..Len(Written(p)) |-> LineRow(call[p].oid, Written(p)[i])]

\* the rows of order_items of one order (SELECT ... WHERE order_id = o)
LinesOf(o) == SelectSeq(order_items, LAMBDA l : l.order_id = o)

\* conn.commit() of an order-creating transaction: header, lines and decrements
CommitOrder(p) ==
    /\ stock' = StockAfterOrder(p)
    /\ orders' = (call[p].oid :> OrderRow(p)) @@ orders
    /\ order_items' = order_items \o LinesWritten(p)

\* get_cursor committing in its except branch: the statements run so far persist
RollbackKeepsWrites(p) ==
    IF pc[p] \in {"co_tx", "cr_tx", "cr_graph"}
    THEN CommitOrder(p)
    ELSE UNCHANGED <<stock, orders, order_items>>

\* conn.rollback(): nothing the transaction wrote reaches the tables
Rollback(p) == UNCHANGED <<stock, orders, order_items>>

\* ------------------------------------------------------------- Redis cart

CartHas(c, x) == \E i \in 1..Len(c) : c[i].product_id = x

\* a store that adds the quantity to the one the field holds
AddNotStore(c, x, q) ==
    IF CartHas(c, x)
    THEN [i \in 1..Len(c) |->
            IF c[i].product_id = x THEN [c[i] EXCEPT !.quantity = @ + q] ELSE c[i]]
    ELSE Append(c, [product_id |-> x, quantity |-> q])

\* HSET cart:<user> <product> <quantity>
hset(c, x, q) ==
    IF CartHas(c, x)
    THEN [i \in 1..Len(c) |->
            IF c[i].product_id = x THEN [c[i] EXCEPT !.quantity = q] ELSE c[i]]
    ELSE Append(c, [product_id |-> x, quantity |-> q])

\* an add that overwrites the stored quantity instead of adding to it
StoreNotAdd(c, x, q) == hset(c, x, q)

\* HINCRBY cart:<user> <product> <quantity>
hincrby(c, x, q) ==
    IF CartHas(c, x)
    THEN [i \in 1..Len(c) |->
            IF c[i].product_id = x THEN [c[i] EXCEPT !.quantity = @ + q] ELSE c[i]]
    ELSE Append(c, [product_id |-> x, quantity |-> q])

\* the quantity cart c holds of product x, 0 when it has no such field
QtyIn(c, x) == IF CartHas(c, x)
               THEN (CHOOSE e \in {c[i] : i \in 1..Len(c)} : e.product_id = x).quantity
               ELSE 0

\* a delete that leaves the field where it is
KeepField(c, x) == c

\* HDEL cart:<user> <product>
hdel(c, x) == SelectSeq(c, LAMBDA e : e.product_id # x)

\* EXPIRE cart:<user> <seconds>: it sets nothing when the key does not exist
expire(c, seconds) == IF c = <<>> THEN 0 ELSE seconds

\* the time a key keeps after a command other than EXPIRE: none once the hash
\* is empty, since Redis removes an empty hash
KeptTtl(t, c) == IF c = <<>> THEN 0 ELSE t

\* a check of the product's existence alone
verify_exists(x, q) == x \in Products

\* SELECT id, stock FROM products WHERE id = x; result["stock"] >= quantity
verify_product(x, q) == x \in Products /\ stock[x] >= q

\* _get_products_by_ids: the cart entries whose product the catalog holds
InCatalog(c) == SelectSeq(c, LAMBDA e : e.product_id \in Products)

\* items that count each line's price once, whatever its quantity
CartItemsUnitTotal(c) ==
    [i \in 1..Len(InCatalog(c)) |->
        Item(InCatalog(c)[i].product_id, InCatalog(c)[i].quantity,
             Price[InCatalog(c)[i].product_id], Price[InCatalog(c)[i].product_id])]

\* the items of get_cart_total: each cart entry joined with the catalog
CartItems(c) ==
    [i \in 1..Len(InCatalog(c)) |->
        Item(InCatalog(c)[i].product_id, InCatalog(c)[i].quantity,
             Price[InCatalog(c)[i].product_id],
             Price[InCatalog(c)[i].product_id] * InCatalog(c)[i].quantity)]

\* get_cart_total: the early return of an empty cart, else total, items, item_count
get_cart_total(c) ==
    IF c = <<>>
    THEN [total |-> 0, items |-> <<>>]
    ELSE [total |-> SumTotal(CartItems(c)), items |-> CartItems(c),
          item_count |-> Len(CartItems(c))]

\* the result when _get_products_by_ids swallowed an exception: no product found
NoProductFound == [total |-> 0, items |-> <<>>, item_count |-> 0]

\* the whole call: hgetall, then the products query
GetCartTotal(p, u) ==
    /\ CanBegin(p)
    /\ Begun
    /\ LET c == [NoCall EXCEPT !.op = "get_cart_total", !.user = u]
       IN  \/ ReturnValue(p, c, "Value", get_cart_total(cart[u]))
           \/ \* the products query raises, _get_products_by_ids returns {}
              /\ cart[u] # <<>>
              /\ ReturnValue(p, c, "NoCatalog", NoProductFound)
           \/ \* hgetall raises: the exception leaves the call
              Return(p, c, "Raised")
    /\ UNCHANGED <<stock, orders, order_items, order_seq, cart, purchased, okCancels,
                   ttl, elapsed, rate, aged>>

\* ------------------------------------------------- CartService.add_to_cart

\* the quantities a caller passes to add_to_cart: any integer is accepted
AddQuantities == {-1} \cup Quantities

\* the call and its _verify_product query
StartAdd(p, u, x, q) ==
    /\ CanBegin(p)
    /\ Begun
    /\ LET c == [NoCall EXCEPT !.op = "add_to_cart", !.user = u,
                               !.items = <<Item(x, q, 0, 0)>>]
       IN  IF verify_product(x, q)
           THEN Running(p, "add_incr", c)
           ELSE Return(p, c, "False")
    /\ UNCHANGED <<stock, orders, order_items, order_seq, cart, purchased, okCancels,
                   ttl, elapsed, rate, aged>>

\* hincrby and expire
AddIncr(p) ==
    /\ pc[p] = "add_incr"
    /\ LET it == call[p].items[1]
       IN  cart' = [cart EXCEPT ![call[p].user] = hincrby(@, it.product_id, it.quantity)]
    /\ ttl' = [ttl EXCEPT ![call[p].user] = expire(cart'[call[p].user], CART_TTL)]
    /\ Return(p, call[p], "True")
    /\ UNCHANGED <<stock, orders, order_items, order_seq, purchased, ncalls,
                   lastCancel, okCancels, elapsed, rate, aged>>

\* ---------------------------------------- CartService.convert_cart_to_order

\* a checkout that goes on whatever the snapshot holds
NeverNothing(its) == FALSE

\* if not cart_total["items"]
NothingToOrder(its) == its = <<>>

\* get_cart_total, and the return None of an empty snapshot
StartCheckout(p, u) ==
    /\ CanBegin(p)
    /\ Begun
    /\ LET its == CartItems(cart[u])
           c == [NoCall EXCEPT !.op = "convert_cart_to_order", !.user = u,
                               !.items = its, !.total = SumTotal(its), !.stock0 = stock]
       IN  IF NothingToOrder(its)
           THEN Return(p, c, "None")
           ELSE Running(p, "co_insert", c)
    /\ UNCHANGED <<stock, orders, order_items, order_seq, cart, purchased, okCancels,
                   ttl, elapsed, rate, aged>>

\* _create_order: INSERT INTO orders ... RETURNING id
CoInsert(p) ==
    /\ pc[p] = "co_insert"
    /\ order_seq <= MaxOrders
    /\ order_seq' = order_seq + 1
    /\ IF order_seq \in DOMAIN orders
       THEN \* the id is taken: the INSERT raises, get_cursor rolls back
            Return(p, call[p], "None")
       ELSE Running(p, "co_tx", [call[p] EXCEPT !.oid = order_seq])
    /\ UNCHANGED <<stock, orders, order_items, cart, purchased, ncalls,
                   lastCancel, okCancels, ttl, elapsed, rate, aged>>

\* whether the UPDATE of the next item finds fewer units than it takes
Short(p) ==
    LET it == call[p].items[call[p].idx + 1]
    IN  it.quantity > stock[it.product_id] - SumQty(Written(p), it.product_id)

\* _create_order: one turn of the loop, INSERT INTO order_items and UPDATE products
CoItem(p) ==
    /\ pc[p] = "co_tx"
    /\ call[p].idx < Len(call[p].items)
    /\ RowFree(p, call[p].items[call[p].idx + 1].product_id)
    /\ Running(p, "co_tx", [call[p] EXCEPT !.idx = @ + 1, !.short = @ \/ Short(p)])
    /\ UNCHANGED <<stock, orders, order_items, order_seq, cart, purchased, ncalls,
                   lastCancel, okCancels, ttl, elapsed, rate, aged>>

\* a checkout q still running that took the same snapshot at the same stock as p
Rival(p, q) ==
    /\ q # p
    /\ pc[q] \in {"co_insert", "co_tx"}
    /\ call[q].user # call[p].user
    /\ call[q].items = call[p].items
    /\ call[q].stock0 = call[p].stock0

\* _create_order: the with block ends, get_cursor commits
CoCommit(p) ==
    /\ pc[p] = "co_tx"
    /\ call[p].idx = Len(call[p].items)
    /\ CommitOrder(p)
    /\ pc' = [pc EXCEPT ![p] = "co_clear"]
    /\ call' = [q \in Workers |->
                  IF Rival(p, q) THEN [call[q] EXCEPT !.rivalOk = TRUE] ELSE call[q]]
    /\ ret' = NoReturn
    /\ UNCHANGED <<order_seq, cart, purchased, ncalls, lastCancel, okCancels,
                   ttl, elapsed, rate, aged>>

\* clear_cart after the order id came back; its own failure is swallowed
CoClear(p) ==
    /\ pc[p] = "co_clear"
    /\ \/ /\ cart' = [cart EXCEPT ![call[p].user] = <<>>]
          /\ ttl' = [ttl EXCEPT ![call[p].user] = 0]
       \/ UNCHANGED <<cart, ttl>>
    /\ Return(p, call[p], "Order")
    /\ UNCHANGED <<stock, orders, order_items, order_seq, purchased, ncalls,
                   lastCancel, okCancels, elapsed, rate, aged>>

\* ------------------------------- CartService: remove, update, clear

\* the whole call: HDEL, return True; or the command raises, return False
RemoveFromCart(p, u, x) ==
    /\ CanBegin(p)
    /\ Begun
    /\ LET c == [NoCall EXCEPT !.op = "remove_from_cart", !.user = u,
                               !.items = <<Item(x, 0, 0, 0)>>]
       IN  \/ /\ cart' = [cart EXCEPT ![u] = hdel(@, x)]
              /\ ttl' = [ttl EXCEPT ![u] = KeptTtl(@, cart'[u])]
              /\ Return(p, c, "True")
           \/ /\ UNCHANGED <<cart, ttl>>
              /\ Return(p, c, "False")
    /\ UNCHANGED <<stock, orders, order_items, order_seq, purchased, okCancels, elapsed,
                   rate, aged>>

\* the quantities a caller passes to update_cart_item
UpdateQuantities == 0..MaxQty

\* update_cart_item: quantity <= 0 is remove_from_cart; else _verify_product
StartUpdate(p, u, x, q) ==
    /\ CanBegin(p)
    /\ Begun
    /\ LET c == [NoCall EXCEPT !.op = "update_cart_item", !.user = u,
                               !.items = <<Item(x, q, 0, 0)>>]
       IN  IF q <= 0
           THEN \/ /\ cart' = [cart EXCEPT ![u] = hdel(@, x)]
                   /\ ttl' = [ttl EXCEPT ![u] = KeptTtl(@, cart'[u])]
                   /\ Return(p, c, "True")
                \/ /\ UNCHANGED <<cart, ttl>>
                   /\ Return(p, c, "False")
           ELSE /\ UNCHANGED <<cart, ttl>>
                /\ IF verify_product(x, q)
                   THEN Running(p, "upd_set", c)
                   ELSE Return(p, c, "False")
    /\ UNCHANGED <<stock, orders, order_items, order_seq, purchased, okCancels, elapsed,
                   rate, aged>>

\* update_cart_item: hset and expire
UpdSet(p) ==
    /\ pc[p] = "upd_set"
    /\ LET it == call[p].items[1]
       IN  cart' = [cart EXCEPT ![call[p].user] = hset(@, it.product_id, it.quantity)]
    /\ ttl' = [ttl EXCEPT ![call[p].user] = expire(cart'[call[p].user], CART_TTL)]
    /\ Return(p, call[p], "True")
    /\ UNCHANGED <<stock, orders, order_items, order_seq, purchased, ncalls,
                   lastCancel, okCancels, elapsed, rate, aged>>

\* the whole call: DEL cart:<user>, return True; or the command raises
ClearCart(p, u) ==
    /\ CanBegin(p)
    /\ Begun
    /\ LET c == [NoCall EXCEPT !.op = "clear_cart", !.user = u]
       IN  \/ /\ cart' = [cart EXCEPT ![u] = <<>>]
              /\ ttl' = [ttl EXCEPT ![u] = 0]
              /\ Return(p, c, "True")
           \/ /\ UNCHANGED <<cart, ttl>>
              /\ Return(p, c, "False")
    /\ UNCHANGED <<stock, orders, order_items, order_seq, purchased, okCancels, elapsed,
                   rate, aged>>

\* ------------------------------------------------- RedisClient.add_to_cart

\* the whole call: hincrby and expire with CACHE_TTL; no product check
RedisAddToCart(p, u, x, q) ==
    /\ CanBegin(p)
    /\ Begun
    /\ LET c == [NoCall EXCEPT !.op = "redis_add_to_cart", !.user = u,
                               !.items = <<Item(x, q, 0, 0)>>]
       IN  \/ /\ cart' = [cart EXCEPT ![u] = hincrby(@, x, q)]
              /\ ttl' = [ttl EXCEPT ![u] = expire(cart'[u], CACHE_TTL)]
              /\ Return(p, c, "None")
           \/ /\ UNCHANGED <<cart, ttl>>
              /\ Return(p, c, "Raised")
    /\ UNCHANGED <<stock, orders, order_items, order_seq, purchased, okCancels, elapsed,
                   rate, aged>>

\* -------------------------------------------- RedisClient.rate_limit_check

\* a rate_limit_check may begin: the budget of checks is not used up
CanCheck(p) ==
    /\ ncalls < MaxChecks
    /\ pc[p] = "idle"
    /\ \A q \in Workers : q < p => pc[q] # "idle"

\* INCR key: the value after the increment; a key that does not exist counts 0
incr(n) == n + 1

\* a limit that lets one call more through
WithinLimitAndOne(current) == current <= RATE_LIMIT_REQUESTS + 1

\* return current <= RATE_LIMIT_REQUESTS
WithinLimit(current) == current <= RATE_LIMIT_REQUESTS

\* the result of a call that returns
Allowed(current) == IF WithinLimit(current) THEN "True" ELSE "False"

\* current = self.client.incr(key), and the return of a call whose current is
\* not 1; or incr raises, and the exception leaves the call
RateLimitCheck(p) ==
    /\ CanCheck(p)
    /\ Begun
    /\ LET current == incr(rate.count)
           c == [NoCall EXCEPT !.op = "rate_limit_check"]
       IN  \/ /\ current = 1
              /\ rate' = [rate EXCEPT !.count = current]
              /\ Running(p, "rl_expire", c)
           \/ /\ current # 1
              /\ rate' = [rate EXCEPT !.count = current,
                                      !.allowed = IF WithinLimit(current) THEN @ + 1 ELSE @]
              /\ ReturnValue(p, c, Allowed(current), [current |-> current])
           \/ /\ UNCHANGED rate
              /\ Return(p, c, "Raised")
    /\ UNCHANGED <<stock, orders, order_items, order_seq, cart, purchased, okCancels,
                   ttl, elapsed, aged>>

\* if current == 1: self.client.expire(key, RATE_LIMIT_WINDOW), and the return
RateExpire(p) ==
    /\ pc[p] = "rl_expire"
    /\ rate' = [rate EXCEPT !.ttl = RATE_LIMIT_WINDOW,
                            !.allowed = IF WithinLimit(1) THEN @ + 1 ELSE @]
    /\ ReturnValue(p, call[p], Allowed(1), [current |-> 1])
    /\ UNCHANGED <<stock, orders, order_items, order_seq, cart, purchased, ncalls,
                   lastCancel, okCancels, ttl, elapsed, aged>>

\* expire raises: the exception leaves the call, the key keeps no expiry
RateExpireFail(p) ==
    /\ pc[p] = "rl_expire"
    /\ Return(p, call[p], "Raised")
    /\ UNCHANGED <<stock, orders, order_items, order_seq, cart, purchased, ncalls,
                   lastCancel, okCancels, ttl, elapsed, rate, aged>>

\* the seconds the key has left pass: Redis removes it, the window is over
WindowEnds ==
    /\ rate.ttl > 0
    /\ rate' = NoCounter
    /\ ret' = NoReturn
    /\ UNCHANGED <<stock, orders, order_items, order_seq, cart, purchased, pc, call,
                   ncalls, lastCancel, okCancels, ttl, elapsed, aged>>

\* ----------------------------------------------------- Redis key expiry

\* the spans of time that pass in one step
Durations == {CACHE_TTL, CART_TTL}

\* d seconds pass: a cart with no more than d seconds left is removed
Elapse(d) ==
    /\ elapsed < MaxElapsed
    /\ elapsed' = elapsed + 1
    /\ cart' = [u \in Users |-> IF ttl[u] > d THEN cart[u] ELSE <<>>]
    /\ ttl' = [u \in Users |-> IF ttl[u] > d THEN ttl[u] - d ELSE 0]
    /\ ret' = NoReturn
    /\ UNCHANGED <<stock, orders, order_items, order_seq, purchased, pc, call, ncalls,
                   lastCancel, okCancels, rate, aged>>

\* ------------------------------------------------ OrderService.create_order

\* the items a caller passes: one line, or two lines
ItemChoices == {Item(x, q, Price[x], Price[x] * q) : x \in Products, q \in Quantities}

ItemLists ==
    {<<a>> : a \in ItemChoices}
      \cup {<<Item(xy[1], 1, Price[xy[1]], Price[xy[1]]),
               Item(xy[2], 1, Price[xy[2]], Price[xy[2]])>> :
                xy \in {z \in Products \X Products : z[1] # z[2]}}

\* the total_amount a caller passes: the sum of its lines, or something else
AmountChoices(its) == {SumTotal(its), 0}

\* MERGE (u)-[r:PURCHASED {date: $date}]->(p), quantity set or incremented
add_purchase(g, u, x, q, d) ==
    IF <<u, x, d>> \in DOMAIN g
    THEN [g EXCEPT ![<<u, x, d>>] = @ + q]
    ELSE (<<u, x, d>> :> q) @@ g

\* the dates a caller passes to add_purchase
Dates == {Today, "D2"}

\* the whole call Neo4jClient.add_purchase: MATCH finds the user and the
\* product, or nothing is merged; or session.run raises
AddPurchase(p, u, x, q, d) ==
    /\ CanBegin(p)
    /\ Begun
    /\ LET c == [NoCall EXCEPT !.op = "add_purchase", !.user = u,
                               !.items = <<Item(x, q, 0, 0)>>]
       IN  \/ /\ purchased' = IF x \in Products
                               THEN add_purchase(purchased, u, x, q, d)
                               ELSE purchased
              /\ Return(p, c, "None")
           \/ /\ UNCHANGED purchased
              /\ Return(p, c, "Raised")
    /\ UNCHANGED <<stock, orders, order_items, order_seq, cart, okCancels, ttl, elapsed,
                   rate, aged>>

\* the call and its INSERT INTO orders ... RETURNING id
StartCreate(p, u, its, total) ==
    /\ CanBegin(p)
    /\ order_seq <= MaxOrders
    /\ Begun
    /\ order_seq' = order_seq + 1
    /\ LET c == [NoCall EXCEPT !.op = "create_order", !.user = u, !.items = its,
                               !.total = total]
       IN  IF order_seq \in DOMAIN orders
           THEN Return(p, c, "None")
           ELSE Running(p, "cr_tx", [c EXCEPT !.oid = order_seq])
    /\ UNCHANGED <<stock, orders, order_items, cart, purchased, okCancels,
                   ttl, elapsed, rate, aged>>

\* one turn of the first loop: INSERT INTO order_items and UPDATE products
CrItem(p) ==
    /\ pc[p] = "cr_tx"
    /\ call[p].idx < Len(call[p].items)
    /\ RowFree(p, call[p].items[call[p].idx + 1].product_id)
    /\ Running(p, IF call[p].idx + 1 = Len(call[p].items) THEN "cr_graph" ELSE "cr_tx",
               [call[p] EXCEPT !.idx = @ + 1, !.short = @ \/ Short(p)])
    /\ UNCHANGED <<stock, orders, order_items, order_seq, cart, purchased, ncalls,
                   lastCancel, okCancels, ttl, elapsed, rate, aged>>

\* one turn of the second loop: neo4j.add_purchase, inside the with block
CrGraph(p) ==
    /\ pc[p] = "cr_graph"
    /\ call[p].gidx < Len(call[p].items)
    /\ LET it == call[p].items[call[p].gidx + 1]
       IN  purchased' = add_purchase(purchased, call[p].user, it.product_id,
                                     it.quantity, Today)
    /\ Running(p, "cr_graph", [call[p] EXCEPT !.gidx = @ + 1])
    /\ UNCHANGED <<stock, orders, order_items, order_seq, cart, ncalls,
                   lastCancel, okCancels, ttl, elapsed, rate, aged>>

\* neo4j.add_purchase raises: get_cursor rolls back, create_order returns None
CrGraphFail(p) ==
    /\ pc[p] = "cr_graph"
    /\ call[p].gidx < Len(call[p].items)
    /\ Rollback(p)
    /\ Return(p, [call[p] EXCEPT !.graphFailed = TRUE], "None")
    /\ UNCHANGED <<order_seq, cart, purchased, ncalls, lastCancel, okCancels,
                   ttl, elapsed, rate, aged>>

\* return order_id leaves the with block: get_cursor commits
CrCommit(p) ==
    /\ pc[p] = "cr_graph"
    /\ call[p].gidx = Len(call[p].items)
    /\ CommitOrder(p)
    /\ Return(p, call[p], "Order")
    /\ UNCHANGED <<order_seq, cart, purchased, ncalls, lastCancel, okCancels,
                   ttl, elapsed, rate, aged>>

\* ----------------------------------------- OrderService.update_order_status

StatusChoices == {"pending", "processing", "completed", "cancelled", "shipped"}

\* UPDATE orders SET status = s WHERE id = o
SetStatus(o, s) == IF o \in DOMAIN orders THEN [orders EXCEPT ![o].status = s] ELSE orders

\* the whole call: one UPDATE, the commit, return cursor.rowcount > 0
UpdateOrderStatus(p, o, s) ==
    /\ CanBegin(p)
    /\ Begun
    /\ LET c == [NoCall EXCEPT !.op = "update_order_status", !.order = o, !.status = s]
       IN  \/ /\ orders' = SetStatus(o, s)
              /\ okCancels' = IF o \in DOMAIN orders
                              THEN [okCancels EXCEPT ![o] = 0] ELSE okCancels
              /\ Return(p, c, IF o \in DOMAIN orders THEN "True" ELSE "False")
           \/ \* the statement or the commit raises: rolled back, return False
              /\ UNCHANGED <<orders, okCancels>>
              /\ Return(p, c, "False")
    /\ UNCHANGED <<stock, order_items, order_seq, cart, purchased, ttl, elapsed,
                   rate, aged>>

\* ------------------------------------------------ OrderService.cancel_order

\* the test without its status part: any order of the user passes
CancellableAnyStatus(o, u) ==
    /\ o \in DOMAIN orders
    /\ orders[o].user_id = u

\* SELECT status FROM orders WHERE id = o AND user_id = u, and the test on it
Cancellable(o, u) ==
    /\ o \in DOMAIN orders
    /\ orders[o].user_id = u
    /\ orders[o].status \in {"pending", "processing"}

\* the call, its first SELECT and the early return False
StartCancel(p, o, u) ==
    /\ CanBegin(p)
    /\ Begun
    /\ LET c == [NoCall EXCEPT !.op = "cancel_order", !.order = o, !.user = u,
                               !.repeat = (lastCancel = <<o, u>>)]
       IN  IF Cancellable(o, u)
           THEN Running(p, "ca_select", c)
           ELSE Return(p, c, "False")
    /\ UNCHANGED <<stock, orders, order_items, order_seq, cart, purchased, okCancels,
                   ttl, elapsed, rate, aged>>

\* what cancel_order keeps of a selected order line
RestoreItem(l) == Item(l.product_id, l.quantity, l.unit_price, l.total_price)

\* SELECT product_id, quantity FROM order_items WHERE order_id = o
CaSelect(p) ==
    /\ pc[p] = "ca_select"
    /\ LET ls == LinesOf(call[p].order)
       IN  Running(p, "ca_tx",
                   [call[p] EXCEPT !.items = [i \in 1..Len(ls) |-> RestoreItem(ls[i])]])
    /\ UNCHANGED <<stock, orders, order_items, order_seq, cart, purchased, ncalls,
                   lastCancel, okCancels, ttl, elapsed, rate, aged>>

\* one turn of the loop: UPDATE products SET stock = stock + quantity
CaRestore(p) ==
    /\ pc[p] = "ca_tx"
    /\ call[p].idx < Len(call[p].items)
    /\ RowFree(p, call[p].items[call[p].idx + 1].product_id)
    /\ Running(p, "ca_tx", [call[p] EXCEPT !.idx = @ + 1])
    /\ UNCHANGED <<stock, orders, order_items, order_seq, cart, purchased, ncalls,
                   lastCancel, okCancels, ttl, elapsed, rate, aged>>

\* cancel_order without its last UPDATE: the status stays as it was
StatusKept(o) == orders[o].status

\* the status the last UPDATE of cancel_order gives order o
StatusAfterCancel(o) == "cancelled"

\* UPDATE orders SET status = 'cancelled', return True, and get_cursor's commit
CaFinish(p) ==
    /\ pc[p] = "ca_tx"
    /\ call[p].idx = Len(call[p].items)
    /\ stock' = StockAfterCancel(p)
    /\ orders' = SetStatus(call[p].order, StatusAfterCancel(call[p].order))
    /\ lastCancel' = <<call[p].order, call[p].user>>
    /\ okCancels' = [okCancels EXCEPT ![call[p].order] = @ + 1]
    /\ Return(p, call[p], "True")
    /\ UNCHANGED <<order_items, order_seq, cart, purchased, ncalls, ttl, elapsed,
                   rate, aged>>

\* ------------------------------------------- OrderService: the read calls

ReadCalls == {"get_order", "get_user_orders", "get_recent_orders",
              "get_order_statistics", "get_order_analytics"}

\* a read transaction that takes a unit of every product
ReadTakesStock ==
    /\ stock' = [x \in Products |-> stock[x] - 1]
    /\ UNCHANGED <<orders, order_items>>

\* get_cursor's commit after SELECT statements only: no table changes
ReadCommit == UNCHANGED <<stock, orders, order_items>>

RECURSIVE SumAmount(_)
\* SUM(total_amount) over a set of order ids
SumAmount(os) ==
    IF os = {} THEN 0
    ELSE LET o == CHOOSE n \in os : TRUE
         IN  orders[o].total_amount + SumAmount(os \ {o})

\* SELECT ... GROUP BY p.id of the lines of the orders os: product and SUM(quantity)
TopProducts(os) ==
    LET ls == SelectSeq(order_items, LAMBDA l : l.order_id \in os)
    IN  {<<x, SumQty(ls, x)>> : x \in {ls[i].product_id : i \in 1..Len(ls)}}

\* a row of get_user_orders / get_recent_orders: o.*, COUNT(oi.id), the items
OrderWithItems(o) ==
    [id |-> o, order |-> orders[o], item_count |-> Len(LinesOf(o)), items |-> LinesOf(o)]

\* WHERE o.user_id = u
OrdersOf(u) == {o \in DOMAIN orders : orders[o].user_id = u}

\* WHERE status = 'completed', of the orders os
Completed(os) == {o \in os : orders[o].status = "completed"}

\* the two SELECTs of get_order
get_order(o) == [order |-> orders[o], items |-> LinesOf(o)]

\* get_user_orders; the rows are kept as a set (LIMIT 10 is above MaxOrders)
get_user_orders(u) == {OrderWithItems(o) : o \in OrdersOf(u)}

\* get_recent_orders, likewise
get_recent_orders == {[id |-> o, order |-> orders[o], item_count |-> Len(LinesOf(o))] :
                        o \in DOMAIN orders}

\* get_order_statistics: the aggregates over the user's completed orders
get_order_statistics(u) ==
    [total_orders |-> Cardinality(Completed(OrdersOf(u))),
     total_spent |-> SumAmount(Completed(OrdersOf(u))),
     top_products |-> TopProducts(Completed(OrdersOf(u)))]

\* WHERE order_date >= NOW() - INTERVAL '30 days'
InWindow == DOMAIN orders \ aged

\* get_order_analytics: totals, orders by status, top products, daily trends
get_order_analytics ==
    [total_orders |-> Cardinality(Completed(DOMAIN orders)),
     total_revenue |-> SumAmount(Completed(DOMAIN orders)),
     status_breakdown |->
        {<<st, Cardinality({o \in DOMAIN orders : orders[o].status = st})>> :
            st \in {orders[o].status : o \in DOMAIN orders}},
     top_products |-> TopProducts(Completed(DOMAIN orders)),
     daily_trends |-> [orders |-> Cardinality(InWindow), revenue |-> SumAmount(InWindow)]]

\* a read call, whole: its SELECTs in one transaction and the commit; or a
\* statement raises and the except clause returns None, [] or {}
Read(p, op, u, o, v) ==
    /\ CanBegin(p)
    /\ Begun
    /\ LET c == [NoCall EXCEPT !.op = op, !.user = u, !.order = o]
       IN  \/ ReturnValue(p, c, "Value", v)
           \/ Return(p, c, "Failed")
    /\ ReadCommit
    /\ UNCHANGED <<order_seq, cart, purchased, okCancels, ttl, elapsed, rate, aged>>

GetOrder(p, o) ==
    IF o \in DOMAIN orders
    THEN Read(p, "get_order", "-", o, get_order(o))
    ELSE Read(p, "get_order", "-", o, NoValue)

GetUserOrders(p, u) == Read(p, "get_user_orders", u, 0, [rows |-> get_user_orders(u)])

GetRecentOrders(p) == Read(p, "get_recent_orders", "-", 0, [rows |-> get_recent_orders])

GetOrderStatistics(p, u) == Read(p, "get_order_statistics", u, 0, get_order_statistics(u))

GetOrderAnalytics(p) == Read(p, "get_order_analytics", "-", 0, get_order_analytics)

\* time passes: the order_date of order o is now more than 30 days back
LeaveWindow(o) ==
    /\ o \in DOMAIN orders \ aged
    /\ aged' = aged \cup {o}
    /\ UNCHANGED <<stock, orders, order_items, order_seq, cart, purchased, pc, call,
                   ncalls, ret, lastCancel, okCancels, ttl, elapsed, rate>>

\* ------------------------------------------------- a statement that raises

\* what the call returns when one of its store calls raises
FailureResult(op) ==
    IF op \in {"convert_cart_to_order", "create_order"} THEN "None" ELSE "False"

\* a store call of the running handler raises: get_cursor rolls the open
\* transaction back and re-raises, the handler's except clause returns
Fail(p) ==
    /\ InTx(p) \/ pc[p] \in {"add_incr", "co_insert", "upd_set"}
    /\ Rollback(p)
    /\ Return(p, call[p], FailureResult(call[p].op))
    /\ UNCHANGED <<order_seq, cart, purchased, ncalls, lastCancel, okCancels,
                   ttl, elapsed, rate, aged>>

\* --------------------------- PurchaseGenerator.load_purchases_to_postgres

UserRank == [u \in Users |-> IF u = "U1" THEN 1 ELSE 2]

\* a row of the purchases frame (generate_purchases)
Purchase(u, x, q) ==
    [user_id |-> u, product_id |-> x, quantity |-> q, purchase_date |-> Today,
     unit_price |-> Price[x], total_price |-> Price[x] * q]

PurchaseRows == {Purchase("U1", "P1", 1), Purchase("U2", "P2", 1)}

PurchaseFrames == {<<a>> : a \in PurchaseRows} \cup {<<a, b>> : a, b \in PurchaseRows}

\* purchases.groupby(["user_id", "purchase_date"]): the keys, sorted
GroupUsers(f) == {f[i].user_id : i \in 1..Len(f)}

\* the order_id the loop gives the group of user u: the groups are numbered from 1
GroupId(f, u) == Cardinality({v \in GroupUsers(f) : UserRank[v] <= UserRank[u]})

GroupRows(f, u) == SelectSeq(f, LAMBDA r : r.user_id = u)

GroupOf(f, n) == CHOOSE u \in GroupUsers(f) : GroupId(f, u) = n

RECURSIVE SumPrice(_)
SumPrice(rows) == IF rows = <<>> THEN 0 ELSE rows[1].total_price + SumPrice(Tail(rows))

\* the orders list: one 'completed' order per group
LoadedOrder(f, n) ==
    [user_id |-> GroupOf(f, n), total_amount |-> SumPrice(GroupRows(f, GroupOf(f, n))),
     status |-> "completed"]

RECURSIVE LoadedLines(_, _)
\* the order_items list: the rows of group n, then of group n + 1, ...
LoadedLines(f, n) ==
    IF n > Cardinality(GroupUsers(f)) THEN <<>>
    ELSE LET rows == GroupRows(f, GroupOf(f, n))
         IN  [i \in 1..Len(rows) |->
                [order_id |-> n, product_id |-> rows[i].product_id,
                 quantity |-> rows[i].quantity, unit_price |-> rows[i].unit_price,
                 total_price |-> rows[i].total_price]] \o LoadedLines(f, n + 1)

\* INSERT INTO orders (id, ...) ... ON CONFLICT (id) DO NOTHING, for every group
InsertLoaded(f) ==
    [n \in DOMAIN orders \cup (1..Cardinality(GroupUsers(f))) |->
        IF n \in DOMAIN orders THEN orders[n] ELSE LoadedOrder(f, n)]

\* an id some open transaction has inserted: an INSERT of the same id waits for it
IdInFlight(n) == \E q \in Workers : pc[q] \in {"co_tx", "cr_tx", "cr_graph"} /\ call[q].oid = n

\* the whole call, one transaction: the orders, then every order item
LoadPurchases(p, f) ==
    /\ CanBegin(p)
    /\ \A n \in 1..Cardinality(GroupUsers(f)) : ~IdInFlight(n)
    /\ Begun
    /\ LET c == [NoCall EXCEPT !.op = "load_purchases_to_postgres"]
       IN  \/ /\ orders' = InsertLoaded(f)
              /\ order_items' = order_items \o LoadedLines(f, 1)
              /\ Return(p, c, "None")
           \/ \* a statement raises: rolled back, the exception leaves the call
              /\ UNCHANGED <<orders, order_items>>
              /\ Return(p, c, "Raised")
    /\ UNCHANGED <<stock, order_seq, cart, purchased, okCancels, ttl, elapsed,
                   rate, aged>>

\* ---------------------------------------------------------------- Next

Step(p) ==
    \/ \E u \in Users, x \in Products, q \in Quantities : StartAdd(p, u, x, q)
    \/ AddIncr(p)
    \/ \E u \in Users : StartCheckout(p, u)
    \/ CoInsert(p)
    \/ CoItem(p)
    \/ CoCommit(p)
    \/ CoClear(p)
    \/ \E u \in Users, its \in ItemLists :
          \E total \in AmountChoices(its) : StartCreate(p, u, its, total)
    \/ CrItem(p)
    \/ CrGraph(p)
    \/ CrGraphFail(p)
    \/ CrCommit(p)
    \/ \E o \in OrderIds, s \in StatusChoices : UpdateOrderStatus(p, o, s)
    \/ \E o \in OrderIds, u \in Users : StartCancel(p, o, u)
    \/ CaSelect(p)
    \/ CaRestore(p)
    \/ CaFinish(p)
    \/ Fail(p)
    \/ \E f \in PurchaseFrames : LoadPurchases(p, f)

Next == \E p \in Workers : Step(p)

Spec == Init /\ [][Next]_vars

\* one call at a time: a worker takes a step only while every other worker is idle
NextSeq == \E p \in Workers : (\A q \in Workers \ {p} : pc[q] = "idle") /\ Step(p)

SpecSeq == Init /\ [][NextSeq]_vars

\* no other worker is running a call
Sole(p) == \A q \in Workers \ {p} : pc[q] = "idle"

\* the order service alone, one call at a time: create_order,
\* update_order_status and cancel_order
NextLedger ==
    \E p \in Workers :
        \/ /\ Sole(p)
           /\ \E u \in Users, its \in ItemLists :
                 \E total \in AmountChoices(its) : StartCreate(p, u, its, total)
        \/ CrItem(p)
        \/ CrGraph(p)
        \/ CrGraphFail(p)
        \/ CrCommit(p)
        \/ /\ Sole(p)
           /\ \E o \in OrderIds, s \in StatusChoices : UpdateOrderStatus(p, o, s)
        \/ /\ Sole(p)
           /\ \E o \in OrderIds, u \in Users : StartCancel(p, o, u)
        \/ CaSelect(p)
        \/ CaRestore(p)
        \/ CaFinish(p)
        \/ Fail(p)

SpecLedger == Init /\ [][NextLedger]_vars

\* the purchase graph alone: add_purchase calls and the create_order calls
\* that write to it
NextGraph ==
    \E p \in Workers :
        \/ \E u \in Users, x \in ProductIds, q \in Quantities, d \in Dates :
              AddPurchase(p, u, x, q, d)
        \/ \E u \in Users, its \in ItemLists : StartCreate(p, u, its, SumTotal(its))
        \/ CrItem(p)
        \/ CrGraph(p)
        \/ CrGraphFail(p)
        \/ CrCommit(p)

SpecGraph == Init /\ [][NextGraph]_vars

\* the rate limiter alone: concurrent rate_limit_check calls of one user on one
\* endpoint, and the end of the window
NextRate ==
    \/ \E p \in Workers :
          \/ RateLimitCheck(p)
          \/ RateExpire(p)
          \/ RateExpireFail(p)
    \/ WindowEnds

SpecRate == Init /\ [][NextRate]_vars

\* the order service with its read calls, one call at a time, the loader that
\* fills the tables, and the passing of time
NextReads ==
    \/ \E p \in Workers :
          \/ /\ Sole(p)
             /\ \E u \in Users, its \in ItemLists : StartCreate(p, u, its, SumTotal(its))
          \/ CrItem(p)
          \/ CrGraph(p)
          \/ CrCommit(p)
          \/ /\ Sole(p)
             /\ \E o \in OrderIds, s \in StatusChoices : UpdateOrderStatus(p, o, s)
          \/ /\ Sole(p)
             /\ \E f \in PurchaseFrames : LoadPurchases(p, f)
          \/ /\ Sole(p)
             /\ \E o \in OrderIds : GetOrder(p, o)
          \/ /\ Sole(p)
             /\ \E u \in Users : GetUserOrders(p, u)
          \/ /\ Sole(p)
             /\ GetRecentOrders(p)
          \/ /\ Sole(p)
             /\ \E u \in Users : GetOrderStatistics(p, u)
          \/ /\ Sole(p)
             /\ GetOrderAnalytics(p)
    \/ \E o \in OrderIds : LeaveWindow(o)

SpecReads == Init /\ [][NextReads]_vars

\* the carts two add_to_cart calls leave: each user holds one unit of P1
InitCarts ==
    /\ stock = InitStock
    /\ orders = <<>>
    /\ order_items = <<>>
    /\ order_seq = 1
    /\ cart = [u \in Users |-> <<[product_id |-> "P1", quantity |-> 1]>>]
    /\ purchased = <<>>
    /\ pc = [p \in Workers |-> "idle"]
    /\ call = [p \in Workers |-> NoCall]
    /\ ncalls = 0
    /\ ret = NoReturn
    /\ lastCancel = <<>>
    /\ okCancels = [o \in OrderIds |-> 0]
    /\ ttl = [u \in Users |-> CART_TTL]
    /\ elapsed = 0
    /\ rate = NoCounter
    /\ aged = {}

\* the cart service alone: add_to_cart and convert_cart_to_order
NextCart ==
    \E p \in Workers :
        \/ \E u \in Users, x \in Products, q \in Quantities : StartAdd(p, u, x, q)
        \/ AddIncr(p)
        \/ \E u \in Users : StartCheckout(p, u)
        \/ CoInsert(p)
        \/ CoItem(p)
        \/ CoCommit(p)
        \/ CoClear(p)
        \/ Fail(p)

SpecCart == InitCarts /\ [][NextCart]_vars

\* a checkout that has begun goes on to its end: each step of the cart service
\* that can be taken is taken
SpecCartFair == SpecCart /\ WF_vars(NextCart)

\* the carts alone, every operation on them, and the time that passes
NextBasket ==
    \/ \E p \in Workers :
          \/ \E u \in Users, x \in ProductIds, q \in AddQuantities : StartAdd(p, u, x, q)
          \/ AddIncr(p)
          \/ \E u \in Users : GetCartTotal(p, u)
          \/ \E u \in Users, x \in ProductIds : RemoveFromCart(p, u, x)
          \/ \E u \in Users, x \in ProductIds, q \in UpdateQuantities :
                StartUpdate(p, u, x, q)
          \/ UpdSet(p)
          \/ \E u \in Users : ClearCart(p, u)
          \/ \E u \in Users, x \in ProductIds, q \in Quantities :
                RedisAddToCart(p, u, x, q)
          \/ \E u \in Users : StartCheckout(p, u)
          \/ CoInsert(p)
          \/ CoItem(p)
          \/ CoCommit(p)
          \/ CoClear(p)
          \/ Fail(p)
    \/ \E d \in Durations : Elapse(d)

SpecBasket == Init /\ [][NextBasket]_vars

\* ================================================================ claims

Creates == {"convert_cart_to_order", "create_order"}

RECURSIVE SumTotalPrice(_)
SumTotalPrice(ls) == IF ls = <<>> THEN 0 ELSE ls[1].total_price + SumTotalPrice(Tail(ls))

\* C1: in every reachable state the stock counter of every product is >= 0.
C1_StockNeverNegative == \A x \in Products : stock[x] >= 0

\* C2: of two checkouts by different users that run concurrently, each for the
\* last units of one product (same snapshot, taken at the same stock), the one
\* that returns after the other has committed returns None, creates no order,
\* and the stock is not oversold.
C2_LastUnitOneWinner ==
    (ret.op = "convert_cart_to_order" /\ ret.lastUnits /\ ret.rivalOk)
        => /\ ret.result = "None"
           /\ ret.oid \notin DOMAIN orders
           /\ \A x \in Products : stock[x] >= 0

\* C3: order creation is all-or-nothing: a call of convert_cart_to_order or
\* create_order that returns None leaves stock, orders and order_items as they
\* were, and no order row or line carries the id it had drawn.
C3_AllOrNothing ==
    [][(ret'.op \in Creates /\ ret'.result = "None")
          => /\ UNCHANGED <<stock, orders, order_items>>
             /\ ret'.oid \notin DOMAIN orders'
             /\ \A i \in 1..Len(order_items') : order_items'[i].order_id # ret'.oid]_vars

\* C3 happens: a two-line order failed after line 1 was inserted and decremented
C3_Witness ==
    /\ ret.op \in Creates /\ ret.result = "None"
    /\ ret.lines = 2 /\ ret.idx = 1 /\ ret.oid > 0

\* C4: a checkout with a line that asks for more units than the product has in
\* stock when the line is reserved is aborted: it returns None and its order
\* is not persisted.
C4_ShortLineAborts ==
    (ret.op \in Creates /\ ret.short)
        => (ret.result = "None" /\ ret.oid \notin DOMAIN orders)

LegalEdges ==
    {<<"pending", "processing">>, <<"processing", "completed">>,
     <<"pending", "cancelled">>, <<"processing", "cancelled">>}

\* C5: every change of a persisted order status follows a legal edge, and the
\* status stays one of pending, processing, completed, cancelled.
C5_LegalTransitions ==
    [][\A o \in DOMAIN orders :
          /\ orders'[o].status \in {"pending", "processing", "completed", "cancelled"}
          /\ \/ orders'[o].status = orders[o].status
             \/ <<orders[o].status, orders'[o].status>> \in LegalEdges]_vars

\* this step begins a call cancel_order(o, u)
BeginsCancel(o, u) ==
    /\ ncalls' = ncalls + 1
    /\ \/ ret'.op = "cancel_order" /\ ret'.order = o /\ ret'.user = u
       \/ \E p \in Workers : /\ pc[p] = "idle"
                             /\ call'[p].op = "cancel_order"
                             /\ call'[p].order = o /\ call'[p].user = u

\* C6: cancel_order on an order that is completed, cancelled, nonexistent or
\* owned by another user returns False and changes neither stock nor any order.
C6_RejectedCancelChangesNothing ==
    [][\A o \in OrderIds, u \in Users :
          (/\ BeginsCancel(o, u)
           /\ \/ o \notin DOMAIN orders
              \/ orders[o].user_id # u
              \/ orders[o].status \in {"completed", "cancelled"})
          => /\ ret'.op = "cancel_order" /\ ret'.result = "False"
             /\ UNCHANGED <<stock, orders, order_items>>]_vars

\* C6 happens: the owner's cancel of a completed order has just returned False
C6_Witness ==
    /\ ret.op = "cancel_order" /\ ret.result = "False" /\ ret.idx = 0
    /\ ret.order \in DOMAIN orders
    /\ orders[ret.order].user_id = ret.user
    /\ orders[ret.order].status = "completed"

\* C7: calls running one at a time.  cancel_order by the owner of a pending or
\* processing order is not rejected; when it returns True the status is
\* cancelled, every product's stock has grown by the quantity of the order's
\* lines for it, and nothing else changed; when it returns False neither stock
\* nor any order changed.
C7_CancelRestoresStock ==
    [][/\ \A o \in OrderIds, u \in Users :
            (/\ BeginsCancel(o, u)
             /\ o \in DOMAIN orders
             /\ orders[o].user_id = u
             /\ orders[o].status \in {"pending", "processing"})
            => ret'.op # "cancel_order"
       /\ (ret'.op = "cancel_order" /\ ret'.result = "True")
            => /\ stock' = [x \in Products |->
                              stock[x] + SumQty(LinesOf(ret'.order), x)]
               /\ orders' = [orders EXCEPT ![ret'.order].status = "cancelled"]
               /\ UNCHANGED <<order_items, order_seq, cart, purchased>>
       /\ (ret'.op = "cancel_order" /\ ret'.result = "False")
            => UNCHANGED <<stock, orders, order_items>>]_vars

\* C7 happens: a cancel that restored two lines has just returned True
C7_Witness ==
    /\ ret.op = "cancel_order" /\ ret.result = "True" /\ ret.idx = 2
    /\ orders[ret.order].status = "cancelled"

\* C8: calls running one at a time.  A cancel_order that directly follows a
\* cancel_order of the same order by the same user that returned True returns
\* False and changes neither stock nor any order: the stock was restored once.
C8_SecondCancelFails ==
    [][(ret'.op = "cancel_order" /\ ret'.repeat)
          => /\ ret'.result = "False"
             /\ UNCHANGED <<stock, orders>>
             /\ okCancels'[ret'.order] = 1]_vars

\* C8 happens: the second of two cancels in a row has just returned False
C8_Witness ==
    /\ ret.op = "cancel_order" /\ ret.repeat /\ ret.result = "False"
    /\ okCancels[ret.order] = 1

\* C9: of the cancel_order calls that run concurrently on one order at most one
\* restores stock and returns True: no order counts two successful cancels
\* with no other write of its status between them.
C9_AtMostOneRestore == \A o \in OrderIds : okCancels[o] <= 1

\* C10: every persisted order's total_amount is the sum of total_price over
\* its order lines.
C10_TotalIsSumOfLines ==
    \A o \in DOMAIN orders : orders[o].total_amount = SumTotalPrice(LinesOf(o))

RECURSIVE CartSum(_)
\* the sum over the entries of a cart of catalog price times quantity
CartSum(c) ==
    IF c = <<>> THEN 0
    ELSE Price[c[1].product_id] * c[1].quantity + CartSum(Tail(c))

\* every entry of cart c is a catalog product and asks for no more than st holds
FitsIn(c, st) ==
    \A i \in 1..Len(c) : /\ c[i].product_id \in Products
                         /\ c[i].quantity >= 1
                         /\ c[i].quantity <= st[c[i].product_id]

\* C11: calls running one at a time.  When convert_cart_to_order returns an
\* order id for a cart whose entries all resolve in the catalog and fit in the
\* stock, the order is pending and belongs to the user, has one line per cart
\* entry with the cart quantity, the catalog price and price times quantity,
\* its total is the sum of price times quantity over the cart, and every
\* product's stock is what it was when the call began less its cart quantity.
C11_CheckoutCreatesOrder ==
    [][\A p \in Workers :
          (/\ pc[p] = "co_clear"
           /\ ret'.op = "convert_cart_to_order" /\ ret'.result = "Order"
           /\ FitsIn(cart[call[p].user], call[p].stock0))
          => LET u == call[p].user
                 o == ret'.oid
                 c == cart[u]
                 ls == LinesOf(o)
             IN  /\ o \in DOMAIN orders'
                 /\ orders'[o] = [user_id |-> u, total_amount |-> CartSum(c),
                                  status |-> "pending"]
                 /\ Len(ls) = Len(c)
                 /\ \A i \in 1..Len(c) :
                       ls[i] = [order_id |-> o, product_id |-> c[i].product_id,
                                quantity |-> c[i].quantity,
                                unit_price |-> Price[c[i].product_id],
                                total_price |-> Price[c[i].product_id] * c[i].quantity]
                 /\ \A x \in Products :
                       stock'[x] = call[p].stock0[x] - QtyIn(c, x)]_vars

\* C11 happens: a checkout of two units of one product has just returned its order
C11_Witness ==
    /\ ret.op = "convert_cart_to_order" /\ ret.result = "Order" /\ ret.lines = 1
    /\ ret.oid \in DOMAIN orders
    /\ orders[ret.oid].total_amount = 30
    /\ stock = [x \in Products |-> IF x = "P1" THEN 1 ELSE 0]

\* C12: a create_order whose add_purchase raised still returns the order id,
\* and the order header and every one of its lines are committed.
C12_GraphFailureKeepsOrder ==
    (ret.op = "create_order" /\ ret.graphFailed)
        => /\ ret.result = "Order"
           /\ ret.oid \in DOMAIN orders
           /\ Len(LinesOf(ret.oid)) = ret.lines

\* C13: a purchase-graph write happens for an order only after that order's
\* transaction has committed: when an edge is written, the order of the call
\* that writes it is in the orders table.
C13_GraphWriteAfterCommit ==
    [][purchased' # purchased
          => \E p \in Workers : /\ pc[p] = "cr_graph"
                                /\ call'[p].gidx = call[p].gidx + 1
                                /\ call[p].oid \in DOMAIN orders]_vars

\* the quantity the PURCHASED edges of user u to product x record
PurchasedQty(u, x) ==
    IF <<u, x, Today>> \in DOMAIN purchased THEN purchased[<<u, x, Today>>] ELSE 0

\* the quantity of product x in the committed lines of the orders of user u
CommittedQty(u, x) ==
    SumQty(SelectSeq(order_items,
                     LAMBDA l : l.order_id \in DOMAIN orders
                                /\ orders[l.order_id].user_id = u), x)

\* C14: once no call is running, the quantity recorded on the purchase edges of
\* a user and a product is no more than the quantity of that product in the
\* user's committed order lines: no edge stands for a rolled-back order.
C14_GraphWithinCommittedLines ==
    (\A p \in Workers : pc[p] = "idle")
        => \A u \in Users, x \in Products : PurchasedQty(u, x) <= CommittedQty(u, x)

\* a committed order of user u has a line for product x
HasLine(u, x) ==
    \E i \in 1..Len(order_items) :
        /\ order_items[i].product_id = x
        /\ order_items[i].order_id \in DOMAIN orders
        /\ orders[order_items[i].order_id].user_id = u

\* C15: the cart service alone, every call running to its end.  Once a checkout
\* has committed an order of user u with a line for product x, a PURCHASED
\* edge from u to x is eventually written.
C15_CheckoutReachesGraph ==
    \A u \in Users, x \in Products :
        HasLine(u, x) ~> (<<u, x, Today>> \in DOMAIN purchased)

\* C16: when convert_cart_to_order returns an order id the user's cart is
\* empty, and the step by which it returns None leaves every cart as it was.
C16_CartClearedAfterCommit ==
    [][/\ (ret'.op = "convert_cart_to_order" /\ ret'.result = "Order")
            => cart'[ret'.user] = <<>>
       /\ (ret'.op = "convert_cart_to_order" /\ ret'.result = "None")
            => UNCHANGED cart]_vars

\* this step begins a call convert_cart_to_order(u)
BeginsCheckout(u) ==
    /\ ncalls' = ncalls + 1
    /\ \/ ret'.op = "convert_cart_to_order" /\ ret'.user = u
       \/ \E p \in Workers : /\ pc[p] = "idle"
                             /\ call'[p].op = "convert_cart_to_order"
                             /\ call'[p].user = u

\* C17: convert_cart_to_order on a cart that is absent or empty, or none of
\* whose products is in the catalog, returns None at once: no order row or
\* line is written, no id is drawn, and stock and every cart stay as they were.
C17_EmptyCartFails ==
    [][\A u \in Users :
          (/\ BeginsCheckout(u)
           /\ \A i \in 1..Len(cart[u]) : cart[u][i].product_id \notin Products)
          => /\ ret'.op = "convert_cart_to_order" /\ ret'.result = "None"
             /\ UNCHANGED <<stock, orders, order_items, order_seq, cart, ttl>>]_vars

\* C17 happens: the checkout of a cart that holds only an unknown product has
\* just returned None
C17_Witness ==
    /\ ret.op = "convert_cart_to_order" /\ ret.result = "None" /\ ret.lines = 0
    /\ cart[ret.user] # <<>>
    /\ orders = <<>>

\* the calls that change a cart, and what each returns when it has done so
Mutated ==
    \/ ret.op \in {"add_to_cart", "remove_from_cart", "update_cart_item"}
          /\ ret.result = "True"
    \/ ret.op = "redis_add_to_cart" /\ ret.result = "None"

\* C18: when a mutating cart call (add, remove, update; CartService or
\* RedisClient.add_to_cart) returns and the cart still exists, the cart has
\* the full CART_TTL left.
C18_MutationRefreshesTtl ==
    (Mutated /\ cart[ret.user] # <<>>) => ttl[ret.user] = CART_TTL

\* C19: the step by which add_to_cart(u, x, q), q > 0, returns True sets the
\* quantity cart:<u> holds of x to what it held (0 if absent) plus q, and leaves
\* every other entry of the cart and every other user's cart as they were,
\* whatever other calls are running; so concurrent adds sum up.
C19_AddIncrements ==
    [][\A p \in Workers :
          (/\ pc[p] = "add_incr" /\ pc'[p] = "idle"
           /\ ret'.op = "add_to_cart" /\ ret'.result = "True"
           /\ ret'.quantity > 0)
          => LET u == ret'.user
                 x == ret'.product
             IN  /\ call[p].user = u /\ call[p].items[1].product_id = x
                 /\ call[p].items[1].quantity = ret'.quantity
                 /\ QtyIn(cart'[u], x) = QtyIn(cart[u], x) + ret'.quantity
                 /\ \A y \in ProductIds \ {x} :
                       /\ CartHas(cart'[u], y) = CartHas(cart[u], y)
                       /\ QtyIn(cart'[u], y) = QtyIn(cart[u], y)
                 /\ \A v \in Users \ {u} : cart'[v] = cart[v]]_vars

\* C19 happens: of two add_to_cart calls for one user and product that run
\* together, one has just incremented the cart the other is about to increment
C19_Witness ==
    /\ ret.op = "add_to_cart" /\ ret.result = "True" /\ ret.quantity > 0
    /\ \E p \in Workers : /\ pc[p] = "add_incr"
                          /\ call[p].user = ret.user
                          /\ call[p].items[1].product_id = ret.product
    /\ QtyIn(cart[ret.user], ret.product) = ret.quantity

\* this step begins a call add_to_cart(u, x, q)
BeginsAdd(u, x, q) ==
    /\ ncalls' = ncalls + 1
    /\ \/ /\ ret'.op = "add_to_cart"
          /\ ret'.user = u /\ ret'.product = x /\ ret'.quantity = q
       \/ \E p \in Workers : /\ pc[p] = "idle"
                             /\ call'[p].op = "add_to_cart"
                             /\ call'[p].user = u
                             /\ call'[p].items[1].product_id = x
                             /\ call'[p].items[1].quantity = q

Without(c, x) == SelectSeq(c, LAMBDA e : e.product_id # x)

C22_RemoveDeletes ==
    [][ret'.op = "remove_from_cart"
          => LET u == ret'.user
                 x == ret'.product
             IN  /\ \A v \in Users \ {u} : cart'[v] = cart[v]
                 /\ \/ /\ ret'.result = "True"
                       /\ cart'[u] = Without(cart[u], x)
                       /\ ~CartHas(cart'[u], x)
                       /\ Without(cart[u], x) = <<>>
                            => /\ get_cart_total(cart'[u]).items = <<>>
                               /\ get_cart_total(cart'[u]).total = 0
                    \/ ret'.result = "False" /\ cart'[u] = cart[u]]_vars

\* C22 happens: the second call, a remove, has returned True and left the cart
\* empty; the other user's cart is empty too, and no time has passed
C22_Witness ==
    /\ ret.op = "remove_from_cart" /\ ret.result = "True"
    /\ ncalls = 2 /\ elapsed = 0
    /\ \A u \in Users : cart[u] = <<>>

\* the entries of cart c whose product the catalog holds
Known(c) == SelectSeq(c, LAMBDA e : e.product_id \in Products)

\* C23: every result of get_cart_total, that of an empty cart included, has
\* one item per cart product the catalog holds, with the catalog price and the
\* line total price times quantity; its total is the sum of the item totals and
\* its item_count is present and is the number of items.
C23_SnapshotComplete ==
    (ret.op = "get_cart_total" /\ ret.result = "Value")
        => LET v == ret.value
               k == Known(cart[ret.user])
           IN  /\ Len(v.items) = Len(k)
               /\ \A i \in 1..Len(k) :
                     v.items[i] = Item(k[i].product_id, k[i].quantity,
                                       Price[k[i].product_id],
                                       Price[k[i].product_id] * k[i].quantity)
               /\ v.total = SumTotal(v.items)
               /\ "item_count" \in DOMAIN v
               /\ v.item_count = Len(v.items)

\* C24: every quantity stored in a cart is positive, so that no order line has
\* a quantity <= 0 and no checkout raises a product's stock.
C24_QuantitiesPositive ==
    /\ \A u \in Users : \A i \in 1..Len(cart[u]) : cart[u][i].quantity > 0
    /\ \A i \in 1..Len(order_items) : order_items[i].quantity > 0
    /\ \A x \in Products : stock[x] <= InitStock[x]

\* C29: no cart mutation is lost by a concurrent checkout.  The step by which
\* convert_cart_to_order clears the cart and returns its order takes from the
\* cart no more than the order's lines hold: what an add_to_cart that succeeded
\* after the snapshot has put in the cart is still there.
C29_NoMutationLost ==
    [][\A p \in Workers :
          (pc[p] = "co_clear" /\ pc'[p] = "idle")
          => \A x \in Products :
                QtyIn(cart'[call[p].user], x)
                    >= QtyIn(cart[call[p].user], x) - SumQty(call[p].items, x)]_vars

\* C30: one cart yields at most one order.  Of two checkouts of one user that
\* took the same snapshot (with two workers and add_to_cart only raising a
\* quantity, no call changed the cart between the two snapshots), at most one
\* commits an order: none commits while the other has committed its order and
\* has not yet cleared the cart.
C30_OneCartOneOrder ==
    [][\A p \in Workers : \A q \in Workers \ {p} :
          ~(/\ pc[p] = "co_tx" /\ pc'[p] = "co_clear"
            /\ pc[q] = "co_clear"
            /\ call[q].user = call[p].user
            /\ call[q].items = call[p].items)]_vars

\* the lines of the orders whose status is not cancelled
LiveLines ==
    SelectSeq(order_items,
              LAMBDA l : l.order_id \in DOMAIN orders
                         /\ orders[l.order_id].status # "cancelled")

\* C28: stock conservation.  In every reachable state, for every product, the
\* stock plus the quantity of the product in the lines of the orders that are
\* not cancelled is the product's initial stock, whatever order operations
\* (create_order, update_order_status, cancel_order) have run.
C28_StockConserved ==
    \A x \in Products : stock[x] + SumQty(LiveLines, x) = InitStock[x]

\* the dates of the PURCHASED edges from user u to product x in graph g
EdgeDates(g, u, x) == {k[3] : k \in {e \in DOMAIN g : e[1] = u /\ e[2] = x}}

RECURSIVE EdgeSum(_, _, _, _)
\* the sum of the quantities of the edges of g from u to x with a date in ds
EdgeSum(g, u, x, ds) ==
    IF ds = {} THEN 0
    ELSE LET d == CHOOSE e \in ds : TRUE
         IN  g[<<u, x, d>>] + EdgeSum(g, u, x, ds \ {d})

\* C26: after an add_purchase for an existing user and product has returned,
\* whatever its date, there is exactly one PURCHASED edge from the user to the
\* product, and its quantity is what the pair had recorded before plus the
\* call's quantity.
C26_OneEdgePerPair ==
    [][(ret'.op = "add_purchase" /\ ret'.result = "None" /\ ret'.product \in Products)
          => LET u == ret'.user
                 x == ret'.product
                 ds == EdgeDates(purchased', u, x)
             IN  /\ Cardinality(ds) = 1
                 /\ EdgeSum(purchased', u, x, ds)
                       = EdgeSum(purchased, u, x, EdgeDates(purchased, u, x))
                            + ret'.quantity]_vars

\* C27: for the counter of one user and endpoint, the k-th rate_limit_check of
\* a window (the k-th INCR since the key was created) gets current = k and
\* returns True if and only if k <= RATE_LIMIT_REQUESTS, whatever callers run
\* at the same time; so no more than RATE_LIMIT_REQUESTS calls of one window
\* are allowed.
C27_RateLimit ==
    [][/\ \A p \in Workers :
            pc'[p] = "rl_expire" /\ pc[p] = "idle" => rate.count = 0 /\ rate'.count = 1
       /\ (ret'.op = "rate_limit_check" /\ ret'.result \in {"True", "False"})
            => LET k == ret'.value.current
               IN  /\ ncalls' = ncalls + 1 => k = rate.count + 1 /\ k > 1
                   /\ ncalls' = ncalls => k = 1
                   /\ rate'.count = IF k = 1 THEN rate.count ELSE k
                   /\ ret'.result = "True" <=> k <= RATE_LIMIT_REQUESTS
                   /\ rate'.allowed = rate.allowed + (IF k <= RATE_LIMIT_REQUESTS THEN 1 ELSE 0)
                   /\ rate'.allowed <= RATE_LIMIT_REQUESTS]_vars

\* C27 happens: the 101st call of a window has just been refused, after 100
\* calls of the window were allowed
C27_Witness ==
    /\ ret.op = "rate_limit_check" /\ ret.result = "False"
    /\ ret.value.current = RATE_LIMIT_REQUESTS + 1
    /\ rate.allowed = RATE_LIMIT_REQUESTS

\* two calls of one read with the same arguments, one right after the other
SameReadAgain ==
    /\ ret.op \in ReadCalls /\ ret'.op = ret.op
    /\ ret'.user = ret.user /\ ret'.order = ret.order
    /\ ret.result = "Value" /\ ret'.result = "Value"

====
